---- MODULE Spec2Model ----
(***************************************************************************)
(* GALA platform: the job execution pipeline.                              *)
(*                                                                         *)
(* The API (PostJob, PostAsset, DeleteAsset, template handlers) and the    *)
(* worker (Run / Processor.ProcessJob) share a Postgres catalog, a Redis   *)
(* list used as the job queue, the staging directory and the storage       *)
(* provider.  Every SQL statement, queue command, provider call and        *)
(* renderer call of a handler is one atomic step of the process that runs  *)
(* the handler, so that the API and the workers interleave between them.   *)
(*                                                                         *)
(* NOW() is abstracted to the single value NOW: the model distinguishes a  *)
(* timestamp that is set from one that is NULL, not two instants.          *)
(***************************************************************************)
EXTENDS Integers, Sequences, FiniteSets, TLC

\* ---------------------------------------------------------------- bounds
MaxJobs == 1            \* job ids handed out by PostJob
MaxUploads == 1         \* POST /assets requests
MaxDeletes == 1         \* DELETE /assets requests
MaxRedeliver == 1       \* duplicate deliveries of a job id (SpecDup only)
MaxPatch == 1           \* PATCH /templates requests that edit defaults
MaxTemplates == 2

MaxStorePuts == 2

MaxContexts == 2       \* template ids handed out by PostTemplate

Workers == {"w1", "w2"}

NULL == "<NULL>"
NOW == "<now>"

\* ------------------------------------------------------------- maps, ids
EmptyMap == [k \in {} |-> ""]

Put(f, k, v) == [x \in (DOMAIN f) \cup {k} |-> IF x = k THEN v ELSE f[x]]

Remove(f, k) == [x \in (DOMAIN f) \ {k} |-> f[x]]

Has(f, k) == k \in DOMAIN f

\* util.NewID: "<prefix>_<UnixNano>"; n stands for the clock reading, which
\* differs between any two calls with the same prefix.
NewID(prefix, n) == prefix \o "_" \o ToString(n)

\* strings.TrimSpace(s) = "" for the strings of the model
IsBlank(s) == s \in {"", " "}

\* JSON scalars are strings; the JSON values that are not strings are the
\* tagged tokens below (true, false, 5).
NonStrings == {"#true", "#false", "#5"}

IsString(v) == v \notin NonStrings

\* ------------------------------------------------------ request payloads
TplId == NewID("tpl", 1)

AvatarId == NewID("ast", 1)

\* The params objects a client posts.  An enveloped payload names the
\* template tpl_1 and the avatar asset ast_1.
LegacyOk == [text |-> "HELLO"]

LegacyEmptyText == [text |-> ""]

LegacyNumberText == [text |-> "#5"]

EnvDefaultsText ==
  [text |-> "x", template_id |-> TplId,
   inputs |-> [avatar_image_asset_id |-> AvatarId],
   params |-> [captions |-> "#true"]]

EnvNoTopText ==
  [template_id |-> TplId,
   inputs |-> [avatar_image_asset_id |-> AvatarId],
   params |-> [text |-> "GALA"]]

EnvJobText ==
  [text |-> "x", template_id |-> TplId,
   inputs |-> [avatar_image_asset_id |-> AvatarId],
   params |-> [text |-> "GALA"]]

EnvNoAvatar ==
  [text |-> "x", template_id |-> TplId,
   inputs |-> [avatar_image_asset_id |-> " "],
   params |-> [text |-> "GALA"]]

Payloads == {EmptyMap, LegacyOk, LegacyEmptyText, LegacyNumberText,
             EnvDefaultsText, EnvJobText, EnvNoTopText, EnvNoAvatar}

\* template defaults a client posts or patches
DefaultsA == [text |-> "default"]

DefaultsB == [text |-> "edited"]

\* file contents: sequences of bytes
RenderBytes == <<"m", "p", "4">>

UploadBytes == <<"i", "m", "g">>

VARIABLES
  provider,       \* STORAGE_PROVIDER of the deployment: "localfs" | "gdrive"
  cleanupLocal,   \* WORKER_CLEANUP_LOCAL
  queueName,      \* JOB_QUEUE_NAME of the worker
  san,            \* an inputs map handed to the input handler, and its files
  jobs,           \* table jobs: id -> row
  assets,         \* table assets: id -> row
  outputs,        \* table job_outputs: id -> row
  templates,      \* table templates: id -> row
  queue,          \* Redis list gala:jobs, head = left end
  fs,             \* files under STORAGE_LOCAL_ROOT: key -> bytes
  dirs,           \* job directories under STORAGE_LOCAL_ROOT
  drive,          \* Google Drive files: fileId -> bytes
  ids,            \* clock readings used by NewID, per prefix
  post,           \* the PostJob request in flight and the last response
  del,            \* the DeleteAsset request in flight and the last response
  wpc, wjob, wparsed, winputs, wres, werr,   \* per worker: position, locals
  tres,           \* the last response of a template handler
  wlog,           \* per worker: the last pop that brought no job id
  sres,           \* the last call made on the storage provider and its result
  mgr,            \* the shutdown.Manager of a process
  wctx,           \* per worker: the root context handed to Run
  hist            \* history: what was pushed, rendered, uploaded

vars == <<provider, cleanupLocal, queueName, san, jobs, assets, outputs, templates, queue,
          fs, dirs, drive, ids, post, del, wpc, wjob, wparsed, winputs, wres,
          werr, tres, wlog, sres, mgr, wctx, hist>>

config == <<provider, cleanupLocal, queueName>>

\* PostJob: the key of the Redis list its LPUSH names
ApiQueueName == "gala:jobs"

\* worker main: the value of JOB_QUEUE_NAME when the variable is not set
DefaultQueueName == "gala:jobs"

\* values of JOB_QUEUE_NAME: unset, and set to another key
QueueNames == {DefaultQueueName, "gala:jobs:bulk"}

returns == <<tres, wlog, sres>>

lifecycle == <<mgr, wctx>>

\* handler names a process registers with its shutdown.Manager
HandlerNames == {"http", "db"}

\* NewManager: no handlers, done open; no Shutdown call yet, its timeout
\* context not created; no context handed out by Context()
NewManager ==
  [handlers |-> <<>>, done |-> "open", pc |-> "idle", snap |-> <<>>, i |-> 0,
   hs |-> [h \in HandlerNames |-> "idle"], expired |-> FALSE, ctxs |-> <<>>]

workerVars == <<wpc, wjob, wparsed, winputs, wres, werr>>

NoParsed == [HasEnvelope |-> FALSE, TemplateID |-> "", Inputs |-> EmptyMap,
             MergedParams |-> EmptyMap]

NoResult == [OutputID |-> "", VideoAssetID |-> "", ThumbAssetID |-> "",
             CaptionsAssetID |-> ""]

\* no failed pop yet: how BRPOP ended, what Pop returned, what Run logged
NoPop == [cause |-> "", err |-> "", msg |-> ""]

InitState ==
  /\ provider \in {"localfs", "gdrive"}
  /\ cleanupLocal \in BOOLEAN
  /\ jobs = EmptyMap
  /\ assets = EmptyMap
  /\ outputs = EmptyMap
  /\ templates = EmptyMap
  /\ queue = <<>>
  /\ fs = EmptyMap
  /\ dirs = {}
  /\ drive = EmptyMap
  /\ ids = [job |-> 0, ast |-> 0, out |-> 0, tpl |-> 0, drv |-> 0,
            upl |-> 0, del |-> 0, dup |-> 0, patch |-> 0]
  /\ post = [pc |-> "idle", id |-> "", code |-> 0, req |-> EmptyMap]
  /\ del = [pc |-> "idle", id |-> "", key |-> "", code |-> 0]
  /\ wpc = [w \in Workers |-> "pop"]
  /\ wjob = [w \in Workers |-> ""]
  /\ wparsed = [w \in Workers |-> NoParsed]
  /\ winputs = [w \in Workers |-> EmptyMap]
  /\ wres = [w \in Workers |-> NoResult]
  /\ werr = [w \in Workers |-> ""]
  /\ tres = [code |-> 0, name |-> ""]
  /\ wlog = [w \in Workers |-> NoPop]
  /\ sres = [op |-> "", key |-> "", err |-> ""]
  /\ mgr = NewManager
  /\ wctx = [w \in Workers |-> "live"]
  /\ hist = [pushed |-> <<>>, rendered |-> {}, uploads |-> EmptyMap,
             created |-> EmptyMap, parsed |-> [w \in Workers |-> EmptyMap]]

\* no inputs map handed to the input handler
NoNames == [pc |-> "idle", inputs |-> {}, mime |-> "", names |-> EmptyMap,
            paths |-> EmptyMap, files |-> EmptyMap, err |-> ""]

\* a deployment that leaves JOB_QUEUE_NAME unset
Init == InitState /\ queueName = DefaultQueueName /\ san = NoNames

\* a deployment with any JOB_QUEUE_NAME
InitEnv == InitState /\ queueName \in QueueNames /\ san = NoNames

\* ------------------------------------------------------ storage provider
FileReader(path) == [kind |-> "file", path |-> path, data |-> <<>>]

BytesReader(data) == [kind |-> "bytes", path |-> "", data |-> data]

\* io.Copy from the reader: an *os.File reads what the file holds when the
\* copy runs, a request body holds its own bytes.
ReadAll(reader, files) ==
  IF reader.kind = "bytes" THEN reader.data
  ELSE IF Has(files, reader.path) THEN files[reader.path] ELSE <<>>

\* LocalFS.PutObject: os.Create(dst) truncates dst, then io.Copy(outF, in.Reader);
\* returns the key it was given and the number of bytes copied.
LocalPutObject(files, key, reader) ==
  LET created == Put(files, key, <<>>)
      data == ReadAll(reader, created)
  IN [fs |-> Put(created, key, data), ObjectKey |-> key, Size |-> Len(data)]

\* gdrive Client.PutObject: Files.Create(...).Media(in.Reader); returns the
\* Drive fileId as ObjectKey and in.Size as Size.
DrivePutObject(files, drv, n, reader, size) ==
  LET fileId == NewID("drv", n + 1)
  IN [drive |-> Put(drv, fileId, ReadAll(reader, files)),
      ObjectKey |-> fileId, Size |-> size]

\* StorageProvider.PutObject of the configured provider
PutObject(key, reader, size) ==
  IF provider = "localfs"
  THEN LET r == LocalPutObject(fs, key, reader)
       IN [fs |-> r.fs, drive |-> drive, drv |-> ids.drv,
           ObjectKey |-> r.ObjectKey, Size |-> r.Size]
  ELSE LET r == DrivePutObject(fs, drive, ids.drv, reader, size)
       IN [fs |-> fs, drive |-> r.drive, drv |-> ids.drv + 1,
           ObjectKey |-> r.ObjectKey, Size |-> r.Size]

\* StorageProvider.GetObject: the stored bytes, or an error when absent
ObjectExists(key) ==
  IF provider = "localfs" THEN Has(fs, key) ELSE Has(drive, key)

GetObject(key) == IF provider = "localfs" THEN fs[key] ELSE drive[key]

\* LocalFS.DeleteObject: os.Remove(path); on a missing file os.Remove
\* returns a *PathError that is os.ErrNotExist
LocalDeleteObject(files, key, ioOk) ==
  IF ~ioOk THEN [err |-> "EIO", fs |-> files]
  ELSE IF Has(files, key) THEN [err |-> "", fs |-> Remove(files, key)]
  ELSE [err |-> "ErrNotExist", fs |-> files]

\* gdrive Client.DeleteObject: Files.Delete(fileId).Do(); Drive answers an
\* unknown fileId with 404 notFound, which Do returns as an error
DriveDeleteObject(drv, key, ioOk) ==
  IF ~ioOk THEN [err |-> "EIO", drive |-> drv]
  ELSE IF Has(drv, key) THEN [err |-> "", drive |-> Remove(drv, key)]
  ELSE [err |-> "notFound", drive |-> drv]

\* StorageProvider.DeleteObject of the configured provider
DeleteObject(key, ioOk) ==
  IF provider = "localfs"
  THEN LET r == LocalDeleteObject(fs, key, ioOk)
       IN [err |-> r.err, fs |-> r.fs, drive |-> drive]
  ELSE LET r == DriveDeleteObject(drive, key, ioOk)
       IN [err |-> r.err, fs |-> fs, drive |-> r.drive]

\* ------------------------------------------------------------ catalog
\* job_outputs: video_asset_id, thumbnail_asset_id, captions_asset_id
RefsOf(o) == {o.video_asset_id, o.thumbnail_asset_id, o.captions_asset_id} \ {NULL}

\* SELECT COUNT(1) FROM job_outputs WHERE video_asset_id=$1 OR ...
RefCount(a) == Cardinality({o \in DOMAIN outputs : a \in RefsOf(outputs[o])})

\* job_outputs REFERENCES jobs(id), assets(id): the insert is rejected unless
\* every referenced row exists.
OutputFkOk(row) ==
  /\ Has(jobs, row.job_id)
  /\ \A a \in RefsOf(row) : Has(assets, a)

\* a job_outputs table whose asset columns carry no REFERENCES clause
AssetDeleteUnchecked(a) == TRUE

\* REFERENCES assets(id) without ON DELETE: the delete of a referenced asset
\* row is rejected.
AssetDeleteFkOk(a) == RefCount(a) = 0

\* templates.name is UNIQUE over the whole table
TemplateNameFree(name) == \A t \in DOMAIN templates : templates[t].name # name

\* ------------------------------------------------------------- POST /jobs
\* an LPUSH that adds the element and then reports an error
LPushThenError(q, id, rdbOk) == <<id>> \o q

\* rdb.LPush(ctx, "gala:jobs", jobID): the id goes to the left end of the
\* list, or the command fails and the list is as it was
LPush(q, id, rdbOk) == IF rdbOk THEN <<id>> \o q ELSE q

\* a PostJob that answers the INSERT error without returning
AfterInsertNoReturn(inserted) == "push"

\* Handler.PostJob after the INSERT: an error is answered with 500 and the
\* handler returns, otherwise it goes on to the LPUSH.
AfterInsert(inserted) == IF inserted THEN "push" ELSE "idle"

\* Handler.PostJob up to the INSERT: the body is validated, the id is drawn
\* and the row is inserted in QUEUED.
PostJobInsert(p, dbOk) ==
  /\ post.pc = "idle"
  /\ IF ~Has(p, "text")
     THEN /\ post' = [pc |-> "idle", id |-> "", code |-> 400, req |-> p]
          /\ UNCHANGED <<jobs, ids, hist>>
     ELSE /\ ids.job < MaxJobs
          /\ LET jobID == NewID("job", ids.job + 1)
             IN /\ ids' = [ids EXCEPT !.job = @ + 1]
                /\ post' = [pc |-> AfterInsert(dbOk), id |-> jobID,
                            code |-> IF AfterInsert(dbOk) = "push" THEN 0 ELSE 500,
                            req |-> p]
                /\ IF dbOk
                   THEN /\ jobs' = Put(jobs, jobID,
                                       [status |-> "QUEUED", params_json |-> p,
                                        started_at |-> NULL, finished_at |-> NULL,
                                        error_text |-> NULL])
                        /\ hist' = [hist EXCEPT !.created = Put(@, jobID, templates)]
                   ELSE UNCHANGED <<jobs, hist>>
  /\ UNCHANGED <<config, san, lifecycle, returns, assets, outputs, templates, queue, fs, dirs, drive, del,
                 workerVars>>

\* Handler.PostJob from the LPUSH to the response
PostJobPush(rdbOk) ==
  /\ post.pc = "push"
  /\ IF rdbOk
     THEN /\ queue' = LPush(queue, post.id, rdbOk)
          /\ hist' = [hist EXCEPT !.pushed = Append(@, post.id)]
          /\ post' = [post EXCEPT !.pc = "idle", !.code = 201]
     ELSE /\ post' = [post EXCEPT !.pc = "idle", !.code = 500]
          /\ queue' = LPush(queue, post.id, rdbOk)
          /\ UNCHANGED hist
  /\ UNCHANGED <<config, san, lifecycle, returns, jobs, assets, outputs, templates, fs, dirs, drive, ids, del,
                 workerVars>>

\* ----------------------------------------------------------- POST /assets
\* Handler.PostAsset: the upload is put at assets/<id>/original<ext> and the
\* row stores the key and size the provider returned.
PostAsset(putOk, dbOk) ==
  /\ ids.upl < MaxUploads
  /\ LET assetID == NewID("ast", ids.ast + 1)
         objectKey == "assets/" \o assetID \o "/original.jpg"
         out == PutObject(objectKey, BytesReader(UploadBytes), Len(UploadBytes))
     IN /\ IF putOk
           THEN /\ fs' = out.fs
                /\ drive' = out.drive
                /\ ids' = [ids EXCEPT !.ast = @ + 1, !.upl = @ + 1,
                                       !.drv = out.drv]
                /\ IF dbOk
                   THEN assets' = Put(assets, assetID,
                                      [kind |-> "image", provider |-> provider,
                                       object_key |-> out.ObjectKey,
                                       mime |-> "image/jpeg",
                                       size_bytes |-> out.Size])
                   ELSE UNCHANGED assets
           ELSE /\ ids' = [ids EXCEPT !.ast = @ + 1, !.upl = @ + 1]
                /\ UNCHANGED <<fs, drive, assets>>
  /\ UNCHANGED <<config, san, lifecycle, returns, jobs, outputs, templates, queue, dirs, post, del,
                 hist, workerVars>>

\* ------------------------------------------------------- template handlers
\* Handler.PostTemplate: INSERT INTO templates, rejected by UNIQUE(name)
\* with 409 TEMPLATE_NAME_EXISTS
PostTemplate(name, defaults) ==
  /\ ids.tpl < MaxTemplates
  /\ ids' = [ids EXCEPT !.tpl = @ + 1]
  /\ IF TemplateNameFree(name)
     THEN /\ templates' = Put(templates, NewID("tpl", ids.tpl + 1),
                              [name |-> name, defaults |-> defaults,
                               deleted_at |-> NULL])
          /\ tres' = [code |-> 201, name |-> name]
     ELSE /\ tres' = [code |-> 409, name |-> name]
          /\ UNCHANGED templates
  /\ UNCHANGED <<config, san, lifecycle, wlog, sres, jobs, assets, outputs, queue, fs, dirs, drive,
                 post, del, hist, workerVars>>

\* Handler.PatchTemplate with a defaults object in the body
PatchTemplate(t, defaults) ==
  /\ ids.patch < MaxPatch
  /\ Has(templates, t)
  /\ templates[t].deleted_at = NULL
  /\ ids' = [ids EXCEPT !.patch = @ + 1]
  /\ templates' = [templates EXCEPT ![t].defaults = defaults]
  /\ UNCHANGED <<config, san, lifecycle, returns, jobs, assets, outputs, queue, fs, dirs, drive, post, del,
                 hist, workerVars>>

\* Handler.DeleteTemplate: tombstone
DeleteTemplate(t) ==
  /\ Has(templates, t)
  /\ templates[t].deleted_at = NULL
  /\ templates' = [templates EXCEPT ![t].deleted_at = NOW]
  /\ UNCHANGED <<config, san, lifecycle, returns, jobs, assets, outputs, queue, fs, dirs, drive, ids, post,
                 del, hist, workerVars>>

\* ------------------------------------------------- parser, helper functions
\* hasValidText: params["text"] is a string that is not blank
hasValidText(params) ==
  /\ Has(params, "text")
  /\ IsString(params.text)
  /\ ~IsBlank(params.text)

\* mergeMaps(base, override): the keys of both, override wins
\* a merge in which the template's defaults win over the job's params
mergeMapsBaseWins(base, override) ==
  [k \in (DOMAIN base) \cup (DOMAIN override) |->
     IF k \in DOMAIN base THEN base[k] ELSE override[k]]

mergeMaps(base, override) ==
  [k \in (DOMAIN base) \cup (DOMAIN override) |->
     IF k \in DOMAIN override THEN override[k] ELSE base[k]]

\* IsTruthy: true, 1, or one of "1", "true", "yes", "on"
IsTruthy(v) == v \in {"#true", "#1", "1", "true", "yes", "on"}

\* a CaptionsEnabled that answers yes for every job
CaptionsEnabledAlways(parsedJob) == TRUE

CaptionsEnabled(parsedJob) ==
  /\ Has(parsedJob.MergedParams, "captions")
  /\ IsTruthy(parsedJob.MergedParams.captions)

\* GenerateOutputKeys
GenerateOutputKeys(jobID, captionsEnabled) ==
  [Video |-> "renders/" \o jobID \o "/hello.mp4",
   Thumb |-> "renders/" \o jobID \o "/hello.jpg",
   Captions |-> IF captionsEnabled
                THEN "renders/" \o jobID \o "/captions.vtt" ELSE ""]

\* strings.TrimSpace, for strings whose only white space is the space
RECURSIVE TrimSpace(_)
TrimSpace(s) ==
  IF Len(s) = 0 THEN s
  ELSE IF SubSeq(s, 1, 1) = " " THEN TrimSpace(SubSeq(s, 2, Len(s)))
  ELSE IF SubSeq(s, Len(s), Len(s)) = " " THEN TrimSpace(SubSeq(s, 1, Len(s) - 1))
  ELSE s

\* a replacement of the first occurrence only
RECURSIVE ReplaceOnce(_, _, _)
ReplaceOnce(s, old, new) ==
  IF Len(s) < Len(old) THEN s
  ELSE IF SubSeq(s, 1, Len(old)) = old
       THEN new \o SubSeq(s, Len(old) + 1, Len(s))
       ELSE SubSeq(s, 1, 1) \o ReplaceOnce(SubSeq(s, 2, Len(s)), old, new)

\* strings.ReplaceAll with a non-empty old: the occurrences found scanning
\* from the left, without overlap, in one pass
RECURSIVE ReplaceAll(_, _, _)
ReplaceAll(s, old, new) ==
  IF Len(s) < Len(old) THEN s
  ELSE IF SubSeq(s, 1, Len(old)) = old
       THEN new \o ReplaceAll(SubSeq(s, Len(old) + 1, Len(s)), old, new)
       ELSE SubSeq(s, 1, 1) \o ReplaceAll(SubSeq(s, 2, Len(s)), old, new)

\* SanitizeFilename
SanitizeFilename(name) ==
  LET s1 == TrimSpace(name)
      s2 == ReplaceAll(s1, "..", "")
      s3 == ReplaceAll(s2, "/", "_")
      s4 == ReplaceAll(s3, "\\", "_")
      s5 == ReplaceAll(s4, " ", "_")
  IN IF s5 = "" THEN "input" ELSE s5

\* ExtFromMime
ExtFromMime(mime) ==
  CASE mime \in {"image/jpeg", "image/jpg"} -> ".jpg"
    [] mime = "image/png" -> ".png"
    [] mime \in {"audio/wav", "audio/x-wav"} -> ".wav"
    [] mime \in {"audio/mpeg", "audio/mp3"} -> ".mp3"
    [] mime = "video/mp4" -> ".mp4"
    [] mime = "text/vtt" -> ".vtt"
    [] OTHER -> ""

\* the envelope test of JobParser.Parse
IsEnvelope(raw) ==
  /\ Has(raw, "template_id")
  /\ IsString(raw.template_id)
  /\ ~IsBlank(raw.template_id)

\* a fetchTemplateDefaults whose query lacks "AND deleted_at IS NULL"
TemplateFoundAnyRow(tpls, templateID) == Has(tpls, templateID)

\* JobParser.fetchTemplateDefaults against the templates table tpls
TemplateFound(tpls, templateID) ==
  /\ Has(tpls, templateID)
  /\ tpls[templateID].deleted_at = NULL

\* the inputs of the envelope: the entries that are non-blank strings
EnvelopeInputs(raw) ==
  IF Has(raw, "inputs")
  THEN [k \in {x \in DOMAIN raw.inputs :
                  IsString(raw.inputs[x]) /\ ~IsBlank(raw.inputs[x])} |->
          raw.inputs[k]]
  ELSE EmptyMap

EnvelopeParams(raw) == IF Has(raw, "params") THEN raw.params ELSE EmptyMap

\* JobParser.Parse against the templates table tpls: [err, job]
Parse(raw, tpls) ==
  IF IsEnvelope(raw)
  THEN IF ~TemplateFound(tpls, raw.template_id)
       THEN [err |-> "template not found: " \o raw.template_id, job |-> NoParsed]
       ELSE LET merged == mergeMaps(tpls[raw.template_id].defaults,
                                    EnvelopeParams(raw))
            IN IF ~hasValidText(merged)
               THEN [err |-> "params.text is required (after defaults merge)",
                     job |-> NoParsed]
               ELSE [err |-> "",
                     job |-> [HasEnvelope |-> TRUE,
                              TemplateID |-> raw.template_id,
                              Inputs |-> EnvelopeInputs(raw),
                              MergedParams |-> merged]]
  ELSE IF ~hasValidText(raw)
       THEN [err |-> "params.text is required", job |-> NoParsed]
       ELSE [err |-> "",
             job |-> [HasEnvelope |-> FALSE, TemplateID |-> "",
                      Inputs |-> EmptyMap, MergedParams |-> raw]]

\* the v1 validation of ProcessJob: a non-blank inputs.avatar_image_asset_id
AvatarOk(parsedJob) ==
  /\ Has(parsedJob.Inputs, "avatar_image_asset_id")
  /\ ~IsBlank(parsedJob.Inputs.avatar_image_asset_id)

\* strings.Contains(s, sub)
Contains(s, sub) ==
  \E i \in 1..(Len(s) - Len(sub) + 1) : SubSeq(s, i, i + Len(sub) - 1) = sub

\* errors.Wrap / WrapWithCode and Error.Error(): "<op>: [<code>] <message>: <cause>"
WrapMsg(op, code, message, cause) ==
  op \o ": [" \o code \o "] " \o message \o ": " \o cause

\* a failJob that takes no cause and persists no message
ErrorTextDropped(msg) == ""

\* the message failJob persists: at most 2000 characters of the cause
ErrorText(msg) == IF Len(msg) > 2000 THEN SubSeq(msg, 1, 2000) ELSE msg

\* ------------------------------------------------------------- worker loop
api == <<post, del>>

\* pool.Exec and pool.QueryRow run with the context of the job: once that
\* context is cancelled they return its error and execute nothing
Exec(w, dbOk) == dbOk /\ wctx[w] = "live"

\* the rows a QueryRow with the context of the job can return
Query(w, table) == IF wctx[w] = "live" THEN table ELSE EmptyMap

\* sp.PutObject with the context of the job: LocalFS ignores the context,
\* the Drive client sends it with the request
Upload(w, putOk) == putOk /\ (provider = "localfs" \/ wctx[w] = "live")

\* a step of worker w ends in an error: ProcessJob goes to failJob(cause)
Failed(w, cause) ==
  /\ wpc' = [wpc EXCEPT ![w] = "fail"]
  /\ werr' = [werr EXCEPT ![w] = cause]

Goto(w, pc) ==
  /\ wpc' = [wpc EXCEPT ![w] = pc]
  /\ UNCHANGED werr

\* a Run that never sees its context cancelled
ctxErrNil(w) == ""

\* ctx.Err() of the context passed to Run
ctxErr(w) == IF wctx[w] = "cancelled" THEN "context canceled" ELSE ""

\* a BRPOP that reads the right end of the list and leaves it there
\* the Redis list under a key: PostJob's LPUSH is the only push in the
\* system, so a list under another key has no element
List(name) == IF name = ApiQueueName THEN queue ELSE <<>>

BRPopKeeps(q) == q

\* BRPOP removes the element it returns
BRPopRest(q) == SubSeq(q, 1, Len(q) - 1)

\* Run: RedisQueue.Pop (BRPOP takes the right end of the list) returned an id
Pop(w) ==
  /\ wpc[w] = "pop"
  /\ List(queueName) # <<>>
  /\ ctxErr(w) = ""
  /\ LET jobID == List(queueName)[Len(List(queueName))]
     IN /\ queue' = BRPopRest(queue)
        /\ wjob' = [wjob EXCEPT ![w] = jobID]
        /\ wparsed' = [wparsed EXCEPT ![w] = NoParsed]
        /\ winputs' = [winputs EXCEPT ![w] = EmptyMap]
        /\ wres' = [wres EXCEPT ![w] = NoResult]
        /\ IF jobID = "" THEN Goto(w, "pop") ELSE Goto(w, "fetch")
  /\ UNCHANGED <<config, san, lifecycle, returns, jobs, assets, outputs, templates, fs, dirs, drive,
                 ids, api, hist>>

\* rdb.BRPop(popCtx, 0, queueName) that brings no element: with timeout 0
\* the server never answers nil, so an empty list ends at the 30 s deadline
\* of popCtx ("deadline"); a broken connection ends it at any time
\* ("transport"). Both come back as a non-nil error.
BRPopErr(cause) ==
  IF cause = "deadline" THEN "context deadline exceeded" ELSE "EOF"

\* RedisQueue.Pop on that outcome: if err != nil { return "", err }
QueuePopErr(cause) == [id |-> "", err |-> BRPopErr(cause)]

\* Run on what Pop returned, the worker context not being cancelled:
\* err != nil logs the warning and sleeps, an empty id just loops
RunLogs(popped) ==
  IF popped.err # "" THEN "queue pop error, retrying" ELSE ""

\* Run: a Pop that ended without an element; the loop starts over
PopFailed(w, cause) ==
  /\ wpc[w] = "pop"
  /\ ctxErr(w) = ""
  /\ cause = "deadline" => List(queueName) = <<>>
  /\ LET popped == QueuePopErr(cause)
     IN wlog' = [wlog EXCEPT ![w] = [cause |-> cause, err |-> popped.err,
                                     msg |-> RunLogs(popped)]]
  /\ UNCHANGED <<config, san, lifecycle, tres, sres, jobs, assets, outputs, templates, queue, fs,
                 dirs, drive, ids, api, hist, workerVars>>

\* the caller of Run cancels the context it passed
CancelRoot(w) ==
  /\ wctx[w] = "live"
  /\ wpc[w] # "crashed"
  /\ wctx' = [wctx EXCEPT ![w] = "cancelled"]
  /\ UNCHANGED <<config, san, returns, mgr, jobs, assets, outputs, templates, queue, fs,
                 dirs, drive, ids, api, hist, workerVars>>

\* what Run logs when it sees the cancellation: in the select at the top of
\* the loop, or after a Pop that the cancellation ended
StopMsg(at) ==
  IF at = "top" THEN "worker context canceled, stopping"
  ELSE "worker stopping due to context cancellation"

\* Run: ctx is cancelled when the loop is at its top or in Pop: return ctx.Err()
RunStop(w, at) ==
  /\ wpc[w] = "pop"
  /\ ctxErr(w) # ""
  /\ wpc' = [wpc EXCEPT ![w] = "stopped"]
  /\ wlog' = [wlog EXCEPT ![w] = [cause |-> "cancelled", err |-> ctxErr(w),
                                  msg |-> StopMsg(at)]]
  /\ UNCHANGED <<config, san, lifecycle, tres, sres, jobs, assets, outputs, templates, queue,
                 fs, dirs, drive, ids, api, hist, wjob, wparsed, winputs, wres, werr>>

\* where a worker is while ProcessJob runs
InProcessJob == {"fetch", "parse", "running", "inputs", "render", "video",
                 "thumb", "captions", "save", "cleanup", "done", "fail"}

\* a panic inside ProcessJob: neither ProcessJob nor Run defers a recover, so
\* the panic unwinds Run and main and the process exits
WorkerPanics(w) ==
  /\ wpc[w] \in InProcessJob
  /\ wpc' = [wpc EXCEPT ![w] = "crashed"]
  /\ wlog' = [wlog EXCEPT ![w] = [cause |-> "panic", err |-> "panic", msg |-> ""]]
  /\ UNCHANGED <<config, san, lifecycle, tres, sres, jobs, assets, outputs, templates, queue,
                 fs, dirs, drive, ids, api, hist, wjob, wparsed, winputs, wres, werr>>

\* a fetchJobParams that finds a row for every id
ParamsFoundAlways(jobID) == TRUE

\* Processor.fetchJobParams: SELECT params_json FROM jobs WHERE id=$1 has a row
ParamsFound(jobID) == Has(jobs, jobID)

\* ProcessJob 1: Processor.fetchJobParams
FetchJobParams(w, dbOk) ==
  /\ wpc[w] = "fetch"
  /\ IF Exec(w, dbOk) /\ ParamsFound(wjob[w])
     THEN Goto(w, "parse")
     ELSE Failed(w, WrapMsg("processor.fetch", "INTERNAL_ERROR",
                            "failed to fetch job params", "job not found"))
  /\ UNCHANGED <<config, san, lifecycle, returns, jobs, assets, outputs, templates, queue, fs, dirs,
                 drive, ids, api, wjob, wparsed, winputs, wres, hist>>

\* ProcessJob 1: JobParser.Parse (reads the template row) and the v1 check
ParseJob(w) ==
  /\ wpc[w] = "parse"
  /\ LET r == Parse(jobs[wjob[w]].params_json, Query(w, templates))
     IN IF r.err # ""
        THEN /\ Failed(w, WrapMsg("processor.parse", "VALIDATION_ERROR",
                                  "failed to parse job params", r.err))
             /\ UNCHANGED <<wparsed, hist>>
        ELSE IF r.job.HasEnvelope /\ ~AvatarOk(r.job)
        THEN /\ Failed(w, "[VALIDATION_ERROR] missing required input")
             /\ UNCHANGED <<wparsed, hist>>
        ELSE /\ wparsed' = [wparsed EXCEPT ![w] = r.job]
             /\ hist' = [hist EXCEPT !.parsed[w] = templates]
             /\ Goto(w, "running")
  /\ UNCHANGED <<config, san, lifecycle, returns, jobs, assets, outputs, templates, queue, fs, dirs,
                 drive, ids, api, wjob, winputs, wres>>

\* a NeedsInputMaterialization that answers no for every job
NeedsInputMaterializationNever(parsedJob) == FALSE

\* ParsedJob.NeedsInputMaterialization
NeedsInputMaterialization(parsedJob) == parsedJob.HasEnvelope

\* a RUNNING write that leaves started_at alone
RunningRowNoStart(row) ==
  [row EXCEPT !.status = "RUNNING", !.finished_at = NULL, !.error_text = NULL]

\* the row of job j after
\* UPDATE jobs SET status='RUNNING', started_at=NOW(), finished_at=NULL, error_text=NULL WHERE id=$1
RunningRow(row) ==
  [row EXCEPT !.status = "RUNNING", !.started_at = NOW, !.finished_at = NULL,
              !.error_text = NULL]

\* Processor.markJobRunning: the rows the UPDATE matches
RunningMatches(jobID) == Has(jobs, jobID)

\* ProcessJob 2: Processor.markJobRunning
MarkJobRunning(w, dbOk) ==
  /\ wpc[w] = "running"
  /\ IF Exec(w, dbOk)
     THEN /\ jobs' = IF RunningMatches(wjob[w])
                     THEN [jobs EXCEPT ![wjob[w]] = RunningRow(@)]
                     ELSE jobs
          /\ Goto(w, IF NeedsInputMaterialization(wparsed[w]) THEN "inputs" ELSE "render")
     ELSE /\ Failed(w, WrapMsg("processor.status", "INTERNAL_ERROR",
                               "failed to mark job as running", "db error"))
          /\ UNCHANGED jobs
  /\ UNCHANGED <<config, san, lifecycle, returns, assets, outputs, templates, queue, fs, dirs, drive,
                 ids, api, wjob, wparsed, winputs, wres, hist>>

\* InputHandler.saveToLocal: the local path of an input
InputPath(jobID, name, mime) ==
  "jobs/" \o jobID \o "/inputs/" \o SanitizeFilename(name) \o ExtFromMime(mime)

\* InputHandler.materializeInput succeeds: the asset row and its object exist
InputOk(assetID) ==
  /\ Has(assets, assetID)
  /\ ObjectExists(assets[assetID].object_key)

\* ProcessJob 4: InputHandler.Materialize.  The inputs are visited in map
\* order; the ones visited before the first failure are written.
Materialize(w) ==
  /\ wpc[w] = "inputs"
  /\ LET jobID == wjob[w]
         inputs == wparsed[w].Inputs
         good == {n \in DOMAIN inputs : InputOk(inputs[n]) /\ wctx[w] = "live"}
         path(n) == InputPath(jobID, n, assets[inputs[n]].mime)
         written(S) == [k \in (DOMAIN fs) \cup {path(n) : n \in S} |->
                          IF \E n \in S : path(n) = k
                          THEN GetObject(assets[inputs[CHOOSE n \in S : path(n) = k]].object_key)
                          ELSE fs[k]]
     IN /\ dirs' = dirs \cup {"jobs/" \o jobID \o "/inputs"}
        /\ IF good = DOMAIN inputs
           THEN /\ fs' = written(good)
                /\ winputs' = [winputs EXCEPT ![w] = [n \in good |-> path(n)]]
                /\ Goto(w, "render")
           ELSE \E S \in SUBSET good :
                  /\ fs' = written(S)
                  /\ UNCHANGED winputs
                  /\ Failed(w, WrapMsg("processor.inputs", "INTERNAL_ERROR",
                                       "failed to materialize inputs",
                                       "input asset not found"))
  /\ UNCHANGED <<config, san, lifecycle, returns, jobs, assets, outputs, templates, queue, drive, ids,
                 api, wjob, wparsed, wres, hist>>

\* a Render that merges the template defaults again when it builds the body
RenderSpecRemerged(jobID, parsedJob, inputPaths) ==
  LET keys == GenerateOutputKeys(jobID, CaptionsEnabled(parsedJob))
      raw == jobs[jobID].params_json
  IN [job_id |-> jobID,
      v1 |-> parsedJob.HasEnvelope,
      template_id |-> IF parsedJob.HasEnvelope THEN parsedJob.TemplateID ELSE "",
      inputs |-> IF parsedJob.HasEnvelope THEN inputPaths ELSE EmptyMap,
      params |-> IF parsedJob.HasEnvelope /\ TemplateFound(templates, parsedJob.TemplateID)
                 THEN mergeMaps(templates[parsedJob.TemplateID].defaults,
                                EnvelopeParams(raw))
                 ELSE parsedJob.MergedParams,
      captions_object_key |->
        IF parsedJob.HasEnvelope /\ CaptionsEnabled(parsedJob)
        THEN keys.Captions ELSE ""]

\* RendererAdapter.Render: the request body sent to the renderer
RenderSpec(jobID, parsedJob, inputPaths) ==
  LET keys == GenerateOutputKeys(jobID, CaptionsEnabled(parsedJob))
  IN [job_id |-> jobID,
      v1 |-> parsedJob.HasEnvelope,
      template_id |-> IF parsedJob.HasEnvelope THEN parsedJob.TemplateID ELSE "",
      inputs |-> IF parsedJob.HasEnvelope THEN inputPaths ELSE EmptyMap,
      params |-> parsedJob.MergedParams,
      captions_object_key |->
        IF parsedJob.HasEnvelope /\ CaptionsEnabled(parsedJob)
        THEN keys.Captions ELSE ""]

\* how a renderer call fails: a response outside 2xx, or the expiry of the
\* client's timeout
RendererFailures == {"5xx", "timeout"}

\* HTTPClient.post: the error it returns, a plain error in both cases
HTTPClientPost(res) ==
  CASE res = "5xx" -> "renderer http 500"
    [] res = "timeout" -> "Post /render: context deadline exceeded (Client.Timeout exceeded while awaiting headers)"
    [] OTHER -> ""

\* errors.Wrap of an error that is not an *Error: the code is CodeInternal
Wrap(err, op, message) == WrapMsg(op, "INTERNAL_ERROR", message, err)

\* ProcessJob 5: the renderer call.  A 2xx answer means the renderer wrote
\* the video and the thumbnail at the output keys, and the captions file if
\* it produced one; anything else is an error.
Render(w, ok, withCaptions) ==
  /\ wpc[w] = "render"
  /\ LET jobID == wjob[w]
         spec == RenderSpec(jobID, wparsed[w], winputs[w])
         keys == GenerateOutputKeys(jobID, CaptionsEnabled(wparsed[w]))
         files == Put(Put(fs, keys.Video, RenderBytes), keys.Thumb, RenderBytes)
     IN \E res \in IF ok THEN {"2xx"} ELSE RendererFailures :
        /\ hist' = [hist EXCEPT !.rendered =
                       @ \cup {[spec |-> spec, at_parse |-> hist.parsed[w],
                                at_render |-> templates, ok |-> ok,
                                res |-> res]}]
        /\ IF ok
           THEN /\ fs' = IF withCaptions /\ spec.captions_object_key # ""
                         THEN Put(files, keys.Captions, RenderBytes)
                         ELSE files
                /\ dirs' = dirs \cup {"renders/" \o jobID}
                /\ Goto(w, "video")
           ELSE /\ Failed(w, Wrap(HTTPClientPost(res), "processor.render", "render failed"))
                /\ UNCHANGED <<fs, dirs>>
  /\ UNCHANGED <<config, san, lifecycle, returns, jobs, assets, outputs, templates, queue, drive, ids,
                 api, wjob, wparsed, winputs, wres>>

\* a maybeCleanupFile that removes the staging file whatever the
\* configuration
CleanupFileAlways(files, objectKey) == Remove(files, objectKey)

\* OutputHandler.maybeCleanupFile: the staging file goes only when the flag
\* is on and the provider is gdrive
CleanupFile(files, objectKey) ==
  IF cleanupLocal /\ provider = "gdrive" THEN Remove(files, objectKey) ELSE files

\* a registerAsset that stores the logical key and the size of the staged file
AssetRowLogicalKey(kind, mime, objectKey, uploadResult) ==
  [kind |-> kind, provider |-> provider, object_key |-> objectKey,
   mime |-> mime, size_bytes |-> uploadResult.Size]

\* the asset row registerAsset inserts for an upload result
AssetRow(kind, mime, objectKey, uploadResult) ==
  [kind |-> kind, provider |-> provider,
   object_key |-> uploadResult.ObjectKey, mime |-> mime,
   size_bytes |-> uploadResult.Size]

\* OutputHandler.registerAsset for the file at objectKey; next is where the
\* worker goes on success and field the OutputResult field to fill.
RegisterAsset(w, kind, mime, objectKey, field, next, putOk, dbOk) ==
  IF ~Has(fs, objectKey)
  THEN /\ Failed(w, WrapMsg("processor.outputs", "INTERNAL_ERROR",
                            "failed to register outputs", "asset file not found"))
       /\ UNCHANGED <<fs, drive, ids, assets, wres, hist>>
  ELSE LET uploadResult == PutObject(objectKey, FileReader(objectKey),
                                        Len(fs[objectKey]))
              assetID == NewID("ast", ids.ast + 1)
          IN IF ~Upload(w, putOk)
             THEN /\ Failed(w, WrapMsg("processor.outputs", "INTERNAL_ERROR",
                                       "failed to register outputs",
                                       "failed to upload asset"))
                  /\ UNCHANGED <<fs, drive, ids, assets, wres, hist>>
             ELSE /\ drive' = uploadResult.drive
                  /\ ids' = [ids EXCEPT !.ast = @ + 1, !.drv = uploadResult.drv]
                  /\ IF ~Exec(w, dbOk)
                     THEN /\ fs' = uploadResult.fs
                          /\ Failed(w, WrapMsg("processor.outputs", "INTERNAL_ERROR",
                                               "failed to register outputs",
                                               "failed to register asset in DB"))
                          /\ UNCHANGED <<assets, wres, hist>>
                     ELSE /\ assets' = Put(assets, assetID,
                                           AssetRow(kind, mime, objectKey, uploadResult))
                          /\ fs' = CleanupFile(uploadResult.fs, objectKey)
                          /\ wres' = [wres EXCEPT ![w][field] = assetID]
                          /\ hist' = [hist EXCEPT !.uploads =
                                        Put(@, assetID,
                                            [job |-> wjob[w], key |-> objectKey,
                                             ObjectKey |-> uploadResult.ObjectKey,
                                             Size |-> uploadResult.Size])]
                          /\ Goto(w, next)

OutputKeysOf(w) == GenerateOutputKeys(wjob[w], CaptionsEnabled(wparsed[w]))

\* ProcessJob 6, RegisterOutputs: the output id is drawn, the video registered
RegisterVideo(w, putOk, dbOk) ==
  /\ wpc[w] = "video"
  /\ RegisterAsset(w, "render_output", "video/mp4", OutputKeysOf(w).Video,
                   "VideoAssetID", "thumb", putOk, dbOk)
  /\ UNCHANGED <<config, san, lifecycle, returns, jobs, outputs, templates, queue, dirs, api, wjob,
                 wparsed, winputs>>

\* RegisterOutputs: the thumbnail
RegisterThumb(w, putOk, dbOk) ==
  /\ wpc[w] = "thumb"
  /\ RegisterAsset(w, "thumbnail", "image/jpeg", OutputKeysOf(w).Thumb,
                   "ThumbAssetID", "captions", putOk, dbOk)
  /\ UNCHANGED <<config, san, lifecycle, returns, jobs, outputs, templates, queue, dirs, api, wjob,
                 wparsed, winputs>>

\* a RegisterOutputs that registers the captions without looking for the file
captionsFileAssumed(captionsKey) == TRUE

\* OutputHandler.captionsFileExists: os.Stat of the local captions file
captionsFileExists(captionsKey) == Has(fs, captionsKey)

\* RegisterOutputs: the captions, when v1, enabled and the file exists
RegisterCaptions(w, putOk, dbOk) ==
  /\ wpc[w] = "captions"
  /\ IF /\ wparsed[w].HasEnvelope
        /\ CaptionsEnabled(wparsed[w])
        /\ OutputKeysOf(w).Captions # ""
        /\ captionsFileExists(OutputKeysOf(w).Captions)
     THEN RegisterAsset(w, "captions", "text/vtt", OutputKeysOf(w).Captions,
                        "CaptionsAssetID", "save", putOk, dbOk)
     ELSE /\ Goto(w, "save")
          /\ UNCHANGED <<fs, drive, ids, assets, wres, hist>>
  /\ UNCHANGED <<config, san, lifecycle, returns, jobs, outputs, templates, queue, dirs, api, wjob,
                 wparsed, winputs>>

\* NullIfEmpty
NullIfEmpty(x) == IF IsBlank(x) THEN NULL ELSE x

\* the row Processor.saveJobOutput inserts
JobOutputRow(jobID, result) ==
  [job_id |-> jobID, variant |-> 1,
   video_asset_id |-> result.VideoAssetID,
   thumbnail_asset_id |-> result.ThumbAssetID,
   captions_asset_id |-> NullIfEmpty(result.CaptionsAssetID)]

\* ProcessJob 7: the error of saveJobOutput ends the job in failJob
\* a ProcessJob that goes on to the cleanup whatever saveJobOutput returned
SaveIgnored(inserted) == TRUE

SaveContinues(inserted) == inserted

\* ProcessJob 7: Processor.saveJobOutput
SaveJobOutput(w, dbOk) ==
  /\ wpc[w] = "save"
  /\ LET row == JobOutputRow(wjob[w], wres[w])
         inserted == Exec(w, dbOk) /\ OutputFkOk(row)
     IN /\ ids' = [ids EXCEPT !.out = @ + 1]
        /\ outputs' = IF inserted
                      THEN Put(outputs, NewID("out", ids.out + 1), row)
                      ELSE outputs
        /\ IF SaveContinues(inserted)
           THEN Goto(w, "cleanup")
           ELSE Failed(w, WrapMsg("processor.save", "INTERNAL_ERROR",
                                  "failed to save job output", "db error"))
  /\ UNCHANGED <<config, san, lifecycle, returns, jobs, assets, templates, queue, fs, dirs, drive, api,
                 wjob, wparsed, winputs, wres, hist>>

\* Cleanup.shouldCleanup
shouldCleanup == cleanupLocal /\ provider = "gdrive"

\* os.Remove(renders/<jobID>) succeeds only on an empty directory
RendersDirEmpty(jobID) ==
  LET keys == GenerateOutputKeys(jobID, TRUE)
  IN {keys.Video, keys.Thumb, keys.Captions} \cap DOMAIN fs = {}

\* ProcessJob 8: Cleanup.CleanupJob
CleanupJob(w) ==
  /\ wpc[w] = "cleanup"
  /\ dirs' = IF shouldCleanup /\ RendersDirEmpty(wjob[w])
             THEN dirs \ {"renders/" \o wjob[w]} ELSE dirs
  /\ Goto(w, "done")
  /\ UNCHANGED <<config, san, lifecycle, returns, jobs, assets, outputs, templates, queue, fs, drive,
                 ids, api, wjob, wparsed, winputs, wres, hist>>

\* ProcessJob 9: Processor.markJobDone; its error is returned to Run
MarkJobDone(w, dbOk) ==
  /\ wpc[w] = "done"
  /\ jobs' = IF Exec(w, dbOk) /\ Has(jobs, wjob[w])
             THEN [jobs EXCEPT ![wjob[w]].status = "DONE",
                               ![wjob[w]].finished_at = NOW]
             ELSE jobs
  /\ Goto(w, "pop")
  /\ UNCHANGED <<config, san, lifecycle, returns, assets, outputs, templates, queue, fs, dirs, drive,
                 ids, api, wjob, wparsed, winputs, wres, hist>>

\* an error path that deletes the asset rows registered for the job
RegisteredRolledBack(rows, result) ==
  [a \in (DOMAIN rows) \ {result.VideoAssetID, result.ThumbAssetID,
                          result.CaptionsAssetID} |-> rows[a]]

\* ProcessJob's error path: failJob's only statement is the UPDATE of the job
\* row, so the asset rows RegisterOutputs inserted stay
RegisteredKept(rows, result) == rows

\* Processor.failJob: the UPDATE to FAILED, whose own error is dropped
FailJob(w, dbOk) ==
  /\ wpc[w] = "fail"
  /\ jobs' = IF Exec(w, dbOk) /\ Has(jobs, wjob[w])
             THEN [jobs EXCEPT ![wjob[w]].status = "FAILED",
                               ![wjob[w]].finished_at = NOW,
                               ![wjob[w]].error_text = ErrorText(werr[w])]
             ELSE jobs
  /\ assets' = RegisteredKept(assets, wres[w])
  /\ wpc' = [wpc EXCEPT ![w] = "pop"]
  /\ UNCHANGED <<config, san, lifecycle, returns, outputs, templates, queue, fs, dirs, drive,
                 ids, api, wjob, wparsed, winputs, wres, werr, hist>>

\* ------------------------------------------------------ DELETE /assets/{id}
\* Handler.DeleteAsset: SELECT object_key FROM assets WHERE id=$1
DeleteAssetRead(assetID) ==
  /\ del.pc = "idle"
  /\ ids.del < MaxDeletes
  /\ ids' = [ids EXCEPT !.del = @ + 1]
  /\ del' = IF Has(assets, assetID)
            THEN [pc |-> "count", id |-> assetID,
                  key |-> assets[assetID].object_key, code |-> 0]
            ELSE [pc |-> "idle", id |-> assetID, key |-> "", code |-> 404]
  /\ UNCHANGED <<config, san, lifecycle, returns, jobs, assets, outputs, templates, queue, fs, dirs,
                 drive, post, hist, workerVars>>

\* a DeleteAsset without the in-use test
InUseSkipped(assetID) == FALSE

\* the in-use test of DeleteAsset
InUse(assetID) == RefCount(assetID) > 0

\* Handler.DeleteAsset: the COUNT over job_outputs and the 409
DeleteAssetCount ==
  /\ del.pc = "count"
  /\ del' = IF InUse(del.id)
            THEN [del EXCEPT !.pc = "idle", !.code = 409]
            ELSE [del EXCEPT !.pc = "object"]
  /\ UNCHANGED <<config, san, lifecycle, returns, jobs, assets, outputs, templates, queue, fs, dirs,
                 drive, ids, post, hist, workerVars>>

\* Handler.DeleteAsset: sp.DeleteObject; os.ErrNotExist is tolerated, which
\* only the local provider reports for a missing object
DeleteAssetObject(spOk) ==
  /\ del.pc = "object"
  /\ LET r == DeleteObject(del.key, spOk)
     IN IF r.err \notin {"", "ErrNotExist"}
        THEN /\ del' = [del EXCEPT !.pc = "idle", !.code = 500]
             /\ UNCHANGED <<fs, drive>>
        ELSE /\ fs' = r.fs
             /\ drive' = r.drive
             /\ del' = [del EXCEPT !.pc = "row"]
  /\ UNCHANGED <<config, san, lifecycle, returns, jobs, assets, outputs, templates, queue, dirs, ids,
                 post, hist, workerVars>>

\* Handler.DeleteAsset: DELETE FROM assets WHERE id=$1
DeleteAssetRow(dbOk) ==
  /\ del.pc = "row"
  /\ IF dbOk /\ AssetDeleteFkOk(del.id)
     THEN /\ assets' = Remove(assets, del.id)
          /\ del' = [del EXCEPT !.pc = "idle", !.code = 204]
     ELSE /\ del' = [del EXCEPT !.pc = "idle", !.code = 500]
          /\ UNCHANGED assets
  /\ UNCHANGED <<config, san, lifecycle, returns, jobs, outputs, templates, queue, fs, dirs, drive, ids,
                 post, hist, workerVars>>

\* ------------------------------------------- the storage provider alone
\* object keys a caller passes to the provider
StoreKeys == {"uploads/a.png", "renders/j/video.mp4"}

\* the Drive fileIds a caller may hold
DriveIds == {NewID("drv", n) : n \in 1..MaxStorePuts}

\* a caller of StorageProvider.PutObject
StorePut(key, data, ioOk) ==
  /\ provider = "gdrive" => ids.drv < MaxStorePuts
  /\ IF ioOk
     THEN LET r == PutObject(key, BytesReader(data), Len(data))
          IN /\ fs' = r.fs
             /\ drive' = r.drive
             /\ ids' = [ids EXCEPT !.drv = r.drv]
             /\ sres' = [op |-> "put", key |-> r.ObjectKey, err |-> ""]
     ELSE /\ sres' = [op |-> "put", key |-> key, err |-> "EIO"]
          /\ UNCHANGED <<fs, drive, ids>>
  /\ UNCHANGED <<config, san, lifecycle, tres, wlog, jobs, assets, outputs, templates, queue, dirs,
                 api, hist, workerVars>>

\* a caller of StorageProvider.DeleteObject
StoreDelete(key, ioOk) ==
  /\ LET r == DeleteObject(key, ioOk)
     IN /\ fs' = r.fs
        /\ drive' = r.drive
        /\ sres' = [op |-> "delete", key |-> key, err |-> r.err]
  /\ UNCHANGED <<config, san, lifecycle, tres, wlog, jobs, assets, outputs, templates, queue, dirs,
                 ids, api, hist, workerVars>>

NextStore ==
  \/ \E k \in StoreKeys, d \in {UploadBytes, RenderBytes}, ioOk \in BOOLEAN :
       StorePut(k, d, ioOk)
  \/ \E k \in StoreKeys \cup DriveIds, ioOk \in BOOLEAN : StoreDelete(k, ioOk)

\* Calls on the configured storage provider, in any order.
SpecStore == Init /\ [][NextStore]_vars

\* ------------------------------------------------------------ the queue
\* At-least-once delivery: an id that was pushed is delivered once more.
Redeliver(jobID) ==
  /\ ids.dup < MaxRedeliver
  /\ \E i \in 1..Len(hist.pushed) : hist.pushed[i] = jobID
  /\ ids' = [ids EXCEPT !.dup = @ + 1]
  /\ queue' = <<jobID>> \o queue
  /\ UNCHANGED <<config, san, lifecycle, returns, jobs, assets, outputs, templates, fs, dirs, drive,
                 api, hist, workerVars>>

\* ------------------------------------------------------- specifications
\* the asset ids handed out so far
IssuedAssetIds == {NewID("ast", n) : n \in 1..ids.ast}

JobIds == {NewID("job", n) : n \in 1..MaxJobs}

JobsApi ==
  \/ \E p \in Payloads, dbOk \in BOOLEAN : PostJobInsert(p, dbOk)
  \/ \E rdbOk \in BOOLEAN : PostJobPush(rdbOk)

\* what an enveloped job refers to: an uploaded avatar, a template
UploadApi ==
  \/ \E putOk, dbOk \in BOOLEAN : PostAsset(putOk, dbOk)
  \/ PostTemplate("tpl", DefaultsA)

CatalogApi ==
  \/ UploadApi
  \/ \E a \in IssuedAssetIds : DeleteAssetRead(a)
  \/ DeleteAssetCount
  \/ \E spOk \in BOOLEAN : DeleteAssetObject(spOk)
  \/ \E dbOk \in BOOLEAN : DeleteAssetRow(dbOk)

TemplateApi ==
  \/ UploadApi
  \/ PatchTemplate(TplId, DefaultsB)
  \/ DeleteTemplate(TplId)

\* Run and ProcessJob without the materialization of inputs
LegacyWorker(w) ==
  \/ Pop(w)
  \/ \E dbOk \in BOOLEAN : FetchJobParams(w, dbOk)
  \/ ParseJob(w)
  \/ \E dbOk \in BOOLEAN : MarkJobRunning(w, dbOk)
  \/ \E ok, withCaptions \in BOOLEAN : Render(w, ok, withCaptions)
  \/ \E putOk, dbOk \in BOOLEAN : RegisterVideo(w, putOk, dbOk)
  \/ \E putOk, dbOk \in BOOLEAN : RegisterThumb(w, putOk, dbOk)
  \/ \E putOk, dbOk \in BOOLEAN : RegisterCaptions(w, putOk, dbOk)
  \/ \E dbOk \in BOOLEAN : SaveJobOutput(w, dbOk)
  \/ CleanupJob(w)
  \/ \E dbOk \in BOOLEAN : MarkJobDone(w, dbOk)
  \/ \E dbOk \in BOOLEAN : FailJob(w, dbOk)

\* Run and ProcessJob
Worker(w) == LegacyWorker(w) \/ Materialize(w)

\* The API and one worker process.
Next == JobsApi \/ CatalogApi \/ Worker("w1")

Spec == Init /\ [][Next]_vars

\* Job submission and two worker processes behind a queue that may deliver
\* an id more than once.  No template exists here, so an enveloped job fails
\* in Parse and no job reaches the materialization of inputs.
NextDup ==
  \/ JobsApi
  \/ \E w \in Workers : LegacyWorker(w)
  \/ \E j \in JobIds : Redeliver(j)

SpecDup == Init /\ [][NextDup]_vars

\* Job submission, one worker process and the template handlers.
NextTpl == JobsApi \/ TemplateApi \/ Worker("w1")

SpecTpl == Init /\ [][NextTpl]_vars

\* ------------------------------------------------ the worker loop alone
\* Job submission and one worker whose pops may time out or break.
NextRun ==
  \/ JobsApi
  \/ LegacyWorker("w1")
  \/ \E cause \in {"deadline", "transport"} : PopFailed("w1", cause)

SpecRun == Init /\ [][NextRun]_vars

\* One worker in Run with everything that can end a pop, a job or the loop.
NextLoop ==
  \/ NextRun
  \/ CancelRoot("w1")
  \/ \E at \in {"top", "pop"} : RunStop("w1", at)
  \/ WorkerPanics("w1")

SpecLoop == Init /\ [][NextLoop]_vars

\* The same with the worker goroutine scheduled: a step of ProcessJob or of
\* the loop that can be taken is taken.
SpecLoopLive ==
  /\ SpecLoop
  /\ WF_vars(LegacyWorker("w1"))
  /\ WF_vars(\E at \in {"top", "pop"} : RunStop("w1", at))

\* ------------------------------------------------- shutdown.Manager
\* the elements of a sequence
Range(s) == {s[k] : k \in 1..Len(s)}

\* Manager.Register: append to m.handlers
Register(h) ==
  /\ h \notin Range(mgr.handlers)
  /\ mgr' = [mgr EXCEPT !.handlers = Append(@, h)]
  /\ UNCHANGED <<config, san, returns, wctx, jobs, assets, outputs, templates, queue, fs,
                 dirs, drive, ids, api, hist, workerVars>>

\* Manager.Shutdown: copy m.handlers, create the timeout context
ShutdownStart ==
  /\ mgr.pc = "idle"
  /\ mgr' = [mgr EXCEPT !.pc = "launch", !.snap = mgr.handlers,
                        !.i = Len(mgr.handlers)]
  /\ UNCHANGED <<config, san, returns, wctx, jobs, assets, outputs, templates, queue, fs,
                 dirs, drive, ids, api, hist, workerVars>>

\* Manager.Shutdown: for i := len(handlers) - 1; i >= 0; i-- { go func(h) }
\* starts one goroutine per handler, last registered first, and goes on
\* without waiting for it; after the loop it waits in the select
ShutdownLaunch ==
  /\ mgr.pc = "launch"
  /\ mgr' = IF mgr.i >= 1
            THEN [mgr EXCEPT !.hs[mgr.snap[mgr.i]] = "spawned", !.i = @ - 1]
            ELSE [mgr EXCEPT !.pc = "select"]
  /\ UNCHANGED <<config, san, returns, wctx, jobs, assets, outputs, templates, queue, fs,
                 dirs, drive, ids, api, hist, workerVars>>

\* the goroutine of a handler calls h.Cleanup(ctx)
HandlerStart(h) ==
  /\ mgr.hs[h] = "spawned"
  /\ mgr' = [mgr EXCEPT !.hs[h] = "running"]
  /\ UNCHANGED <<config, san, returns, wctx, jobs, assets, outputs, templates, queue, fs,
                 dirs, drive, ids, api, hist, workerVars>>

\* h.Cleanup returns, with or without an error; wg.Done
HandlerEnd(h) ==
  /\ mgr.hs[h] = "running"
  /\ mgr' = [mgr EXCEPT !.hs[h] = "done"]
  /\ UNCHANGED <<config, san, returns, wctx, jobs, assets, outputs, templates, queue, fs,
                 dirs, drive, ids, api, hist, workerVars>>

\* the deadline of context.WithTimeout(context.Background(), m.timeout)
ShutdownTimeout ==
  /\ mgr.pc \in {"launch", "select"}
  /\ ~mgr.expired
  /\ mgr' = [mgr EXCEPT !.expired = TRUE]
  /\ UNCHANGED <<config, san, returns, wctx, jobs, assets, outputs, templates, queue, fs,
                 dirs, drive, ids, api, hist, workerVars>>

\* wg.Wait() has returned and the local done channel is closed
AllHandlersDone(m) == \A h \in Range(m.snap) : m.hs[h] = "done"

\* a Shutdown that returns from the select without close(m.done)
ReturnOnly(m) == [m EXCEPT !.pc = "returned"]

\* Manager.Shutdown: close(m.done) and return
CloseDone(m) == [m EXCEPT !.done = "closed", !.pc = "returned"]

\* Manager.Shutdown: select { case <-done: case <-ctx.Done(): }; close(m.done)
ShutdownSelect ==
  /\ mgr.pc = "select"
  /\ AllHandlersDone(mgr) \/ mgr.expired
  /\ mgr' = CloseDone(mgr)
  /\ UNCHANGED <<config, san, returns, wctx, jobs, assets, outputs, templates, queue, fs,
                 dirs, drive, ids, api, hist, workerVars>>

\* Manager.Context: context.WithCancel and a goroutine waiting on m.done
Context ==
  /\ Len(mgr.ctxs) < MaxContexts
  /\ mgr' = [mgr EXCEPT !.ctxs = Append(@, "live")]
  /\ UNCHANGED <<config, san, returns, wctx, jobs, assets, outputs, templates, queue, fs,
                 dirs, drive, ids, api, hist, workerVars>>

\* the goroutine of Manager.Context: <-m.done; cancel()
ContextWatch(c) ==
  /\ c \in 1..Len(mgr.ctxs)
  /\ mgr.done = "closed"
  /\ mgr.ctxs[c] = "live"
  /\ mgr' = [mgr EXCEPT !.ctxs[c] = "cancelled"]
  /\ UNCHANGED <<config, san, returns, wctx, jobs, assets, outputs, templates, queue, fs,
                 dirs, drive, ids, api, hist, workerVars>>

NextShut ==
  \/ \E h \in HandlerNames : Register(h)
  \/ ShutdownStart
  \/ ShutdownLaunch
  \/ \E h \in HandlerNames : HandlerStart(h)
  \/ \E h \in HandlerNames : HandlerEnd(h)
  \/ ShutdownTimeout
  \/ ShutdownSelect
  \/ Context
  \/ \E c \in 1..MaxContexts : ContextWatch(c)

\* A process registering handlers, taking contexts and shutting down once.
SpecShut == Init /\ [][NextShut]_vars

\* The same with the goroutines scheduled: Shutdown's own steps and the
\* goroutines of Context() run when they can; a handler may never return.
SpecShutLive ==
  /\ SpecShut
  /\ WF_vars(ShutdownLaunch)
  /\ WF_vars(ShutdownTimeout)
  /\ WF_vars(ShutdownSelect)
  /\ \A c \in 1..MaxContexts : WF_vars(ContextWatch(c))

\* ------------------------------------------------------------ properties
\* the positions of ProcessJob after the RUNNING write and before the job
\* is closed: the pipeline proper
Pipeline == {"inputs", "render", "video", "thumb", "captions", "save",
             "cleanup", "done"}

\* C1: the status values a job row takes are a prefix of
\* QUEUED -> RUNNING -> (DONE or FAILED): a row is born QUEUED, QUEUED is
\* left only for RUNNING, RUNNING only for DONE or FAILED, and DONE and
\* FAILED are never left.
C1_StatusTrajectory ==
  [][/\ \A j \in DOMAIN jobs :
          \/ jobs'[j].status = jobs[j].status
          \/ <<jobs[j].status, jobs'[j].status>> \in
               {<<"QUEUED", "RUNNING">>, <<"RUNNING", "DONE">>,
                <<"RUNNING", "FAILED">>}
     /\ \A j \in (DOMAIN jobs') \ (DOMAIN jobs) : jobs'[j].status = "QUEUED"]_vars

\* C2: of two workers that received the same job id, at most one is past
\* the RUNNING write and inside the pipeline (renderer call, asset and
\* JobOutput inserts, the closing status write) for that job.
C2_OneWorkerContinues ==
  \A w1, w2 \in Workers :
    (w1 # w2 /\ wjob[w1] = wjob[w2] /\ wpc[w1] \in Pipeline)
      => wpc[w2] \notin Pipeline

\* C3: once a job is DONE or FAILED no step changes its status, its
\* finished_at, its error_text or its JobOutput rows.
C3_TerminalJobIgnored ==
  [][\A j \in DOMAIN jobs :
       jobs[j].status \in {"DONE", "FAILED"} =>
         /\ jobs'[j].status = jobs[j].status
         /\ jobs'[j].finished_at = jobs[j].finished_at
         /\ jobs'[j].error_text = jobs[j].error_text
         /\ {o \in DOMAIN outputs' : outputs'[o].job_id = j}
              = {o \in DOMAIN outputs : outputs[o].job_id = j}
         /\ \A o \in DOMAIN outputs :
              outputs[o].job_id = j => outputs'[o] = outputs[o]]_vars

\* C4: a DONE job has exactly one JobOutput row, whose video_asset_id is
\* not null; a FAILED job has no JobOutput row.
C4_OutputsMatchStatus ==
  \A j \in DOMAIN jobs :
    LET outs == {o \in DOMAIN outputs : outputs[o].job_id = j}
    IN /\ jobs[j].status = "DONE" =>
            /\ Cardinality(outs) = 1
            /\ \A o \in outs : outputs[o].video_asset_id \notin {NULL, ""}
       /\ jobs[j].status = "FAILED" => outs = {}

\* C5: every video, thumbnail and captions asset id stored in a JobOutput
\* row is the id of an asset row that exists, whatever the interleaving of
\* the worker's inserts with DELETE /assets requests.
C5_OutputAssetsExist ==
  \A o \in DOMAIN outputs : RefsOf(outputs[o]) \subseteq DOMAIN assets

\* C5: the race: a DELETE passed its in-use test, deleted the object and is
\* about to delete the row of an asset a JobOutput row now references
C5_DeleteRacesOutput ==
  /\ del.pc = "row"
  /\ \E o \in DOMAIN outputs : del.id \in RefsOf(outputs[o])

\* C6: with the localfs provider, after a legacy job is DONE, the object of
\* its video asset holds exactly the non-empty bytes the renderer wrote at
\* renders/<job_id>/hello.mp4, size_bytes is their length, and the staged
\* file is unaltered.
C6_LocalRoundTrip ==
  provider = "localfs" =>
    \A o \in DOMAIN outputs :
      LET j == outputs[o].job_id
          a == outputs[o].video_asset_id
          staged == GenerateOutputKeys(j, FALSE).Video
      IN (jobs[j].status = "DONE" /\ ~IsEnvelope(jobs[j].params_json)) =>
           /\ Has(assets, a)
           /\ ObjectExists(assets[a].object_key)
           /\ GetObject(assets[a].object_key) = RenderBytes
           /\ assets[a].size_bytes = Len(RenderBytes)
           /\ Has(fs, staged) /\ fs[staged] = RenderBytes

\* C7: an asset row inserted by the output registration stores the key and
\* the size PutObject returned for that upload and the provider's label;
\* under gdrive the key is a Drive file id, never the logical path.
C7_RowStoresPutResult ==
  \A a \in (DOMAIN hist.uploads) \cap (DOMAIN assets) :
    LET u == hist.uploads[a]
    IN /\ assets[a].object_key = u.ObjectKey
       /\ assets[a].size_bytes = u.Size
       /\ assets[a].provider = provider
       /\ provider = "gdrive" =>
            /\ assets[a].object_key # u.key
            /\ assets[a].object_key \in {NewID("drv", n) : n \in 1..ids.drv}

\* C7: an output asset registered through the gdrive provider
C7_DriveOutputRegistered ==
  /\ provider = "gdrive"
  /\ \E a \in (DOMAIN hist.uploads) \cap (DOMAIN assets) :
       assets[a].kind = "render_output"

\* C8 as stated: the params sent to the renderer for an enveloped job are
\* the merge of the template defaults as they were when the job was
\* created with the job's own params.
C8_SnapshotAtCreation ==
  \A r \in hist.rendered :
    LET j == r.spec.job_id
        t == r.spec.template_id
    IN (r.spec.v1 /\ TemplateFound(hist.created[j], t)) =>
         r.spec.params = mergeMaps(hist.created[j][t].defaults,
                                   EnvelopeParams(jobs[j].params_json))

\* C8 amended: the params sent to the renderer for an enveloped job are the
\* merge of the template defaults as they were when the worker parsed the
\* job with the job's own params; an edit after the parse changes nothing.
C8_SnapshotAtParse ==
  \A r \in hist.rendered :
    LET j == r.spec.job_id
        t == r.spec.template_id
    IN r.spec.v1 =>
         /\ TemplateFound(r.at_parse, t)
         /\ r.spec.params = mergeMaps(r.at_parse[t].defaults,
                                      EnvelopeParams(jobs[j].params_json))

\* C8: an enveloped job rendered after its template's defaults were edited
\* between the parse and the renderer call
C8_EditedBetweenParseAndRender ==
  \E r \in hist.rendered :
    /\ r.spec.v1
    /\ Has(r.at_render, r.spec.template_id)
    /\ r.at_render[r.spec.template_id].defaults
         # r.at_parse[r.spec.template_id].defaults

C10_InsertBeforePush ==
  LET pushed == hist.pushed
      Pushed(j) == \E i \in 1..Len(pushed) : pushed[i] = j
  IN /\ \A i \in 1..Len(queue) : Has(jobs, queue[i])
     /\ \A i \in 1..Len(pushed) : Has(jobs, pushed[i])
     /\ \A i, k \in 1..Len(pushed) : pushed[i] = pushed[k] => i = k
     /\ post.pc = "push" =>
          /\ Has(jobs, post.id)
          /\ jobs[post.id].status = "QUEUED"
          /\ ~Pushed(post.id)
     /\ (post.pc = "idle" /\ post.code = 201) =>
          /\ Has(jobs, post.id)
          /\ Pushed(post.id)

\* C10: a job creation answered 201 whose id waits in the queue
C10_CreatedAndQueued ==
  /\ post.pc = "idle"
  /\ post.code = 201
  /\ \E i \in 1..Len(queue) : queue[i] = post.id

\* C11: a POST /jobs whose params.text is absent, not a string or the empty
\* string is answered 400 and inserts no job row and pushes nothing.
C11_InvalidTextRejected ==
  [][(/\ post.pc = "idle"
      /\ post' # post
      /\ ~(/\ Has(post'.req, "text")
           /\ IsString(post'.req.text)
           /\ post'.req.text # "")) =>
       /\ post'.pc = "idle"
       /\ post'.code = 400
       /\ jobs' = jobs
       /\ queue' = queue]_vars

\* C12: an enveloped POST /jobs (template_id, inputs and a nested params
\* object) without a top-level text is not rejected by the validation of
\* PostJob: it is never answered 400.
C12_EnvelopeAccepted ==
  (/\ post.pc = "idle"
   /\ post.code # 0
   /\ IsEnvelope(post.req)
   /\ Has(post.req, "inputs")
   /\ Has(post.req, "params")
   /\ ~Has(post.req, "text")) => post.code # 400

C14_ErrorNamesField ==
  [][\A w \in Workers :
       (/\ wpc[w] = "parse"
        /\ wpc'[w] = "fail"
        /\ Parse(jobs[wjob[w]].params_json, templates).err = "") =>
         Contains(ErrorText(werr'[w]), "avatar_image_asset_id")]_vars

C16_CaptionsIffFile ==
  [][\A w \in Workers :
       /\ (/\ wpc[w] = "captions"
           /\ wpc'[w] # "captions"
           /\ CaptionsEnabled(wparsed[w])) =>
            IF Has(fs, GenerateOutputKeys(wjob[w], TRUE).Captions)
            THEN wpc'[w] = "save" =>
                   /\ wres'[w].CaptionsAssetID \in (DOMAIN assets') \ (DOMAIN assets)
                   /\ assets'[wres'[w].CaptionsAssetID].kind = "captions"
            ELSE /\ wpc'[w] = "save"
                 /\ wres'[w].CaptionsAssetID = ""
                 /\ assets' = assets
       /\ (wpc[w] = "save" /\ outputs' # outputs) =>
            \A o \in (DOMAIN outputs') \ (DOMAIN outputs) :
              outputs'[o].captions_asset_id =
                IF wres[w].CaptionsAssetID = "" THEN NULL
                ELSE wres[w].CaptionsAssetID]_vars

\* C16: a DONE job with captions truthy, no captions file and a JobOutput
\* row whose captions_asset_id is null
C16_DoneWithoutCaptions ==
  \E o \in DOMAIN outputs :
    LET j == outputs[o].job_id
    IN /\ jobs[j].status = "DONE"
       /\ \E w \in Workers : wjob[w] = j /\ CaptionsEnabled(wparsed[w])
       /\ ~Has(fs, GenerateOutputKeys(j, TRUE).Captions)
       /\ outputs[o].captions_asset_id = NULL

\* C17: a step of a worker removes a local file only when the cleanup flag
\* is on and the provider is gdrive, and then only the staging file whose
\* upload and asset row insert succeeded in that step; it removes a
\* renders/<job_id> directory only under the same configuration; with the
\* localfs provider it removes no file and no directory.
C17_CleanupOnlyAfterUpload ==
  [][\A w \in Workers :
       wpc'[w] # wpc[w] =>
         /\ \A k \in (DOMAIN fs) \ (DOMAIN fs') :
              /\ cleanupLocal
              /\ provider = "gdrive"
              /\ \E a \in (DOMAIN assets') \ (DOMAIN assets) :
                   /\ hist.uploads'[a].key = k
                   /\ Has(drive', assets'[a].object_key)
         /\ (dirs \ dirs' # {}) => (cleanupLocal /\ provider = "gdrive")
         /\ provider = "localfs" =>
              /\ (DOMAIN fs) \subseteq (DOMAIN fs')
              /\ dirs \subseteq dirs']_vars

\* C17: under gdrive with the flag on, a registered output whose staging
\* file is gone and whose job directory was removed
C17_StagingRemoved ==
  /\ provider = "gdrive"
  /\ cleanupLocal
  /\ \E a \in (DOMAIN hist.uploads) \cap (DOMAIN assets) :
       /\ ~Has(fs, hist.uploads[a].key)
       /\ ("renders/" \o hist.uploads[a].job) \notin dirs
       /\ jobs[hist.uploads[a].job].status = "DONE"

\* C20: creating a template answers 409 (name conflict) exactly when a
\* template without a deletion timestamp already has that name; a name held
\* only by tombstone-deleted templates is accepted with 201.
C20_NameUniqueAmongLive ==
  [][(ids'.tpl = ids.tpl + 1) =>
       /\ tres'.code \in {201, 409}
       /\ (tres'.code = 409) <=>
            (\E t \in DOMAIN templates :
               /\ templates[t].deleted_at = NULL
               /\ templates[t].name = tres'.name)]_vars

\* C18: a provider delete fails only on a transport error: deleting a key
\* that is absent, because it was deleted before or never stored, reports
\* success.
C18_DeleteIdempotent ==
  (sres.op = "delete" /\ sres.err # "EIO") => sres.err = ""

\* C19: a pop that found no element within its timeout returns no id and no
\* error, and Run does not log it as a queue error.
C19_TimeoutIsNotError ==
  \A w \in Workers :
    wlog[w].cause = "deadline" =>
      /\ wlog[w].err = ""
      /\ wlog[w].msg # "queue pop error, retrying"

\* C21: before Shutdown is called Done() is open and no context from
\* Context() is cancelled; once Shutdown has returned Done() is closed,
\* whether the handlers completed or the timeout expired; and every context
\* obtained from Context() is eventually cancelled after Shutdown returned.
C21_DoneAndContexts ==
  /\ [](mgr.pc = "idle" =>
          /\ mgr.done = "open"
          /\ \A c \in 1..Len(mgr.ctxs) : mgr.ctxs[c] = "live")
  /\ [](mgr.pc = "returned" => mgr.done = "closed")
  /\ \A c \in 1..MaxContexts :
       []((mgr.pc = "returned" /\ c <= Len(mgr.ctxs)) =>
            <>(c <= Len(mgr.ctxs) /\ mgr.ctxs[c] = "cancelled"))

\* C21: Shutdown returned on the timeout with a handler still running, and
\* a context taken before it is cancelled
C21_TimedOutAndCancelled ==
  /\ mgr.pc = "returned"
  /\ mgr.expired
  /\ \E h \in Range(mgr.snap) : mgr.hs[h] = "running"
  /\ \E c \in 1..Len(mgr.ctxs) : mgr.ctxs[c] = "cancelled"

\* C22: a handler registered earlier starts its cleanup only after every
\* handler registered later has completed its own.
C22_HandlersLifo ==
  \A a, b \in 1..Len(mgr.snap) :
    (a < b /\ mgr.hs[mgr.snap[a]] \in {"running", "done"}) =>
      mgr.hs[mgr.snap[b]] = "done"

\* C23: in a run of ProcessJob each side effect happens only after the
\* previous ones succeeded: inputs are materialized and the renderer is
\* called only on a RUNNING job (an enveloped job is rendered after its
\* inputs directory was made); the video asset is inserted after a
\* successful render, the thumbnail after the video, the captions after the
\* thumbnail, the JobOutput row after video and thumbnail; the job directory
\* is removed and DONE is written only after the JobOutput row was inserted;
\* and the RUNNING write precedes every render and asset of the job.
C23_SideEffectOrder ==
  [][\A w \in Workers :
       (wpc'[w] # wpc[w] /\ Has(jobs, wjob[w])) =>
         LET j == wjob[w]
             keys == OutputKeysOf(w)
             has_out == \E o \in DOMAIN outputs : outputs[o].job_id = j
             rendered_ok == \E r \in hist.rendered : r.spec.job_id = j /\ r.ok
             new_up == (DOMAIN hist.uploads') \ (DOMAIN hist.uploads)
         IN /\ (wpc[w] = "running" /\ jobs' # jobs) =>
                 /\ jobs'[j].status = "RUNNING"
                 /\ \A r \in hist.rendered : r.spec.job_id # j
                 /\ \A a \in DOMAIN hist.uploads : hist.uploads[a].job # j
            /\ (wpc[w] = "inputs") => jobs[j].status = "RUNNING"
            /\ (hist.rendered' # hist.rendered) =>
                 /\ jobs[j].status = "RUNNING"
                 /\ wparsed[w].HasEnvelope =>
                      ("jobs/" \o j \o "/inputs") \in dirs
                 /\ \A a \in DOMAIN hist.uploads : hist.uploads[a].job # j
            /\ \A a \in new_up :
                 /\ rendered_ok
                 /\ ~has_out
                 /\ hist.uploads'[a].key = keys.Video =>
                      wres[w].VideoAssetID = ""
                 /\ hist.uploads'[a].key = keys.Thumb =>
                      wres[w].VideoAssetID \in DOMAIN hist.uploads
                 /\ (keys.Captions # "" /\ hist.uploads'[a].key = keys.Captions) =>
                      /\ wres[w].VideoAssetID \in DOMAIN hist.uploads
                      /\ wres[w].ThumbAssetID \in DOMAIN hist.uploads
            /\ (outputs' # outputs) =>
                 /\ wres[w].VideoAssetID \in DOMAIN hist.uploads
                 /\ wres[w].ThumbAssetID \in DOMAIN hist.uploads
                 /\ jobs[j].status = "RUNNING"
            /\ (("renders/" \o j) \in dirs \ dirs') => has_out
            /\ (wpc[w] = "cleanup") => has_out
            /\ (jobs[j].status # "DONE" /\ jobs'[j].status = "DONE") =>
                 /\ has_out
                 /\ wpc[w] = "done"
                 /\ jobs[j].status = "RUNNING"]_vars

\* C23: an enveloped job that went through every step, captions included
C23_DoneWithAllOutputs ==
  \E o \in DOMAIN outputs :
    /\ jobs[outputs[o].job_id].status = "DONE"
    /\ outputs[o].captions_asset_id # NULL
    /\ \E r \in hist.rendered : r.spec.job_id = outputs[o].job_id /\ r.spec.v1

\* C24: failJob records the failure whatever the state of the job's context:
\* when ProcessJob is about to call failJob for an existing job and the
\* database works, the step that follows writes FAILED, finished_at and
\* error_text, also when the context was cancelled meanwhile.
C24_FailureRecorded ==
  \A w \in Workers :
    (wpc[w] = "fail" /\ Has(jobs, wjob[w])) =>
      ENABLED (/\ FailJob(w, TRUE)
               /\ jobs'[wjob[w]].status = "FAILED"
               /\ jobs'[wjob[w]].finished_at = NOW
               /\ jobs'[wjob[w]].error_text = ErrorText(werr[w]))

C25_RunningEnds ==
  \A j \in JobIds :
    (Has(jobs, j) /\ jobs[j].status = "RUNNING") ~>
      \/ Has(jobs, j) /\ jobs[j].status \in {"DONE", "FAILED"}
      \/ wpc["w1"] \in {"stopped", "crashed"}
      \/ wctx["w1"] = "cancelled"

\* C26: a panic while a job is processed is handled as a failure of the job:
\* the worker goes to failJob with the panic message and does not terminate.
C26_PanicIsJobFailure ==
  [][\A w \in Workers :
       (wlog'[w].cause = "panic" /\ wlog'[w] # wlog[w]) =>
         /\ wpc'[w] = "fail"
         /\ werr'[w] = wlog'[w].err]_vars

\* C28: a worker never adds to the queue; ProcessJob starts only on the id
\* a pop just removed from the queue; when ProcessJob ends, with DONE or
\* through failJob, the worker goes back to the pop; and a job that was
\* taken off the queue is never in the queue again.
C28_NoRetry ==
  /\ [][\A w \in Workers :
          (wpc'[w] # wpc[w]) =>
            /\ \/ queue' = queue
               \/ /\ wpc[w] = "pop"
                  /\ queue # <<>>
                  /\ queue' = SubSeq(queue, 1, Len(queue) - 1)
            /\ (wpc'[w] = "fetch") =>
                 /\ wpc[w] = "pop"
                 /\ queue # <<>>
                 /\ queue' = SubSeq(queue, 1, Len(queue) - 1)
                 /\ wjob'[w] = queue[Len(queue)]
            /\ (wpc[w] \in {"done", "fail"}) => wpc'[w] \in {"pop", "crashed"}]_vars
  /\ [](\A k \in 1..Len(queue) :
          /\ jobs[queue[k]].status = "QUEUED"
          /\ \A w \in Workers : wjob[w] # queue[k])

\* C28: a job failed, its id is not in the queue and the worker is back at
\* the pop
C28_FailedAndNotRequeued ==
  /\ wpc["w1"] = "pop"
  /\ Has(jobs, wjob["w1"])
  /\ jobs[wjob["w1"]].status = "FAILED"
  /\ queue = <<>>

\* C27: when the push of PostJob fails the request is answered with an
\* error and the row stays QUEUED; a job whose id was never pushed (the push
\* failed, or the API stopped between the insert and the push) is in no
\* queue, is taken by no worker and stays QUEUED.
C27_UnpushedStaysQueued ==
  /\ [][(post.pc = "push" /\ post'.pc = "idle" /\ queue' = queue) =>
          /\ post'.code = 500
          /\ jobs' = jobs
          /\ jobs[post.id].status = "QUEUED"]_vars
  /\ [](\A j \in DOMAIN jobs :
          (\A k \in 1..Len(hist.pushed) : hist.pushed[k] # j) =>
            /\ jobs[j].status = "QUEUED"
            /\ \A k \in 1..Len(queue) : queue[k] # j
            /\ \A w \in Workers : wjob[w] # j)

\* C27: PostJob answered 500 for a row it had inserted, and the row is
\* still QUEUED with the worker idle on an empty queue
C27_PushFailedRowQueued ==
  /\ post.pc = "idle"
  /\ post.code = 500
  /\ Has(jobs, post.id)
  /\ jobs[post.id].status = "QUEUED"
  /\ hist.pushed = <<>>
  /\ wpc["w1"] = "pop"

\* C30: when a parse succeeds, the merged params of an enveloped job have
\* exactly the keys of the template's defaults and of the job's nested
\* params, with the job's value for each key of the nested params and the
\* default for each other key; the merged params of a legacy job are the raw
\* params object and its inputs are empty.
C30_MergedParams ==
  [][\A w \in Workers :
       (wpc[w] = "parse" /\ wpc'[w] = "running") =>
         LET raw == jobs[wjob[w]].params_json
             merged == wparsed'[w].MergedParams
         IN IF IsEnvelope(raw)
            THEN LET defaults == templates[raw.template_id].defaults
                     params == IF Has(raw, "params") THEN raw.params ELSE EmptyMap
                 IN /\ wparsed'[w].HasEnvelope
                    /\ DOMAIN merged = (DOMAIN defaults) \cup (DOMAIN params)
                    /\ \A k \in DOMAIN params : merged[k] = params[k]
                    /\ \A k \in (DOMAIN defaults) \ (DOMAIN params) :
                         merged[k] = defaults[k]
            ELSE /\ ~wparsed'[w].HasEnvelope
                 /\ merged = raw
                 /\ wparsed'[w].Inputs = EmptyMap]_vars

\* C30: an enveloped job was parsed whose nested params and template
\* defaults both give text, with different values, and the job's value won
C30_JobValueWon ==
  /\ wparsed["w1"].HasEnvelope
  /\ Has(templates, wparsed["w1"].TemplateID)
  /\ templates[wparsed["w1"].TemplateID].defaults.text = "default"
  /\ wparsed["w1"].MergedParams.text = "GALA"


\* C31: the renderer adapter sends a v1 request exactly when the parsed job
\* has an envelope and a v0 request otherwise; the output block of a v1
\* request names renders/<job_id>/captions.vtt as captions_object_key exactly
\* when the merged params' captions value is truthy, and a v0 request never
\* carries a captions key.
C31_RequestVersion ==
  [][\A w \in Workers :
       (wpc[w] = "render" /\ wpc'[w] # "render") =>
         \E r \in hist'.rendered \ hist.rendered :
           LET merged == wparsed[w].MergedParams
               truthy == Has(merged, "captions") /\ IsTruthy(merged.captions)
           IN /\ r.spec.job_id = wjob[w]
              /\ r.spec.v1 = wparsed[w].HasEnvelope
              /\ r.spec.v1 =>
                   r.spec.captions_object_key =
                     IF truthy THEN "renders/" \o wjob[w] \o "/captions.vtt"
                     ELSE ""
              /\ ~r.spec.v1 => r.spec.captions_object_key = ""]_vars

\* C31: a v1 request with a captions key, for a job whose merged captions
\* value is truthy, has been sent
C31_V1WithCaptionsSent ==
  \E r \in hist.rendered :
    /\ r.spec.v1
    /\ wparsed["w1"].HasEnvelope
    /\ Has(wparsed["w1"].MergedParams, "captions")
    /\ wparsed["w1"].MergedParams.captions = "#true"
    /\ r.spec.captions_object_key = "renders/" \o r.spec.job_id \o "/captions.vtt"


\* the text failJob stores for a failed materialization
InputsFailedText ==
  "processor.inputs: [INTERNAL_ERROR] failed to materialize inputs: input asset not found"

C33_RendererErrorCodes ==
  [][\A w \in Workers :
       (wpc[w] = "render" /\ wpc'[w] = "fail") =>
         \E r \in hist'.rendered \ hist.rendered :
           /\ r.res = "5xx" => Contains(werr'[w], "[UNAVAILABLE]")
           /\ r.res = "timeout" => Contains(werr'[w], "[TIMEOUT]")]_vars


\* ---------------------------------------------- an id without a job row
\* an id no POST /jobs has issued
StrayId == "job_0"

\* The list holds an id for which the catalog has no row.
ForeignPush ==
  /\ StrayId \notin Range(queue)
  /\ \A w \in Workers : wjob[w] # StrayId \/ wpc[w] = "pop"
  /\ queue' = <<StrayId>> \o queue
  /\ UNCHANGED <<config, san, lifecycle, returns, jobs, assets, outputs, templates, fs, dirs, drive,
                 ids, api, hist, workerVars>>

\* The API, one worker, and ids without a row in the list.
NextStray ==
  \/ JobsApi
  \/ LegacyWorker("w1")
  \/ ForeignPush

SpecStray == Init /\ [][NextStray]_vars

\* C34: no worker step adds or removes a job row.  While a worker runs
\* ProcessJob on an id that has no row, its steps leave the jobs, assets and
\* job_outputs tables unchanged and call no renderer; the fetch ends in
\* failJob with a non-empty error, and failJob hands the worker back to the
\* loop, at the pop.
C34_NoRowNoEffect ==
  [][\A w \in Workers :
       (wpc'[w] # wpc[w] \/ wjob'[w] # wjob[w]) =>
         /\ DOMAIN jobs' = DOMAIN jobs
         /\ (wpc[w] \in InProcessJob /\ wjob[w] \notin DOMAIN jobs) =>
              /\ jobs' = jobs
              /\ assets' = assets
              /\ outputs' = outputs
              /\ hist'.rendered = hist.rendered
              /\ wpc[w] \in {"fetch", "fail"}
              /\ wpc[w] = "fetch" =>
                   /\ wpc'[w] = "fail"
                   /\ werr'[w] # ""
              /\ wpc[w] = "fail" =>
                   /\ wpc'[w] = "pop"
                   /\ werr[w] # ""
                   /\ queue' = queue]_vars

\* C34: the worker is back at the pop after failing an id without a row,
\* with the next id waiting in the list
C34_StrayFailedNextWaiting ==
  /\ wpc["w1"] = "pop"
  /\ wjob["w1"] = StrayId
  /\ werr["w1"] =
       "processor.fetch: [INTERNAL_ERROR] failed to fetch job params: job not found"
  /\ jobs # EmptyMap
  /\ queue # <<>>
  /\ \A j \in DOMAIN jobs : jobs[j].status = "QUEUED"
  /\ assets = EmptyMap /\ outputs = EmptyMap /\ hist.rendered = {}


\* C35: with every id delivered once, the fields of a job row agree with its
\* status: QUEUED has no started_at, finished_at or error_text; RUNNING has
\* started_at and neither finished_at nor error_text; DONE has started_at and
\* finished_at and no error_text; FAILED has finished_at and a non-empty
\* error_text.
C35_RowAgreesWithStatus ==
  \A j \in DOMAIN jobs :
    LET row == jobs[j]
    IN /\ row.status \in {"QUEUED", "RUNNING", "DONE", "FAILED"}
       /\ row.status = "QUEUED" =>
            row.started_at = NULL /\ row.finished_at = NULL /\ row.error_text = NULL
       /\ row.status = "RUNNING" =>
            row.started_at # NULL /\ row.finished_at = NULL /\ row.error_text = NULL
       /\ row.status = "DONE" =>
            row.started_at # NULL /\ row.finished_at # NULL /\ row.error_text = NULL
       /\ row.status = "FAILED" =>
            row.finished_at # NULL /\ row.error_text \notin {NULL, ""}

\* C35: a job failed before its RUNNING write and a worker that went on to
\* the pop: FAILED with finished_at and error_text but no started_at
C35_FailedBeforeRunning ==
  \E j \in DOMAIN jobs :
    /\ jobs[j].status = "FAILED"
    /\ jobs[j].started_at = NULL
    /\ jobs[j].finished_at = NOW
    /\ jobs[j].error_text # NULL
    /\ wpc["w1"] = "pop"


NextEnv == NextRun

SpecEnv == InitEnv /\ [][NextEnv]_vars

\* C37: for every value of the worker's JOB_QUEUE_NAME, the list PostJob
\* pushes an id onto is the list the worker's Pop reads: after a push the id
\* is the head of the list under the worker's key.
C37_SameQueue ==
  [][(post.pc = "push" /\ post'.pc = "idle" /\ post'.code = 201) =>
       /\ List(queueName)' # <<>>
       /\ List(queueName)'[1] = post.id]_vars


\* C38: DELETE /assets/{id} is all-or-nothing: when the request for an
\* existing asset ends with an error response (409 or 500), the asset row
\* still exists and its object can still be read from the provider.
C38_DeleteAllOrNothing ==
  [][(del.pc # "idle" /\ del'.pc = "idle" /\ del'.code \in {409, 500}) =>
       /\ Has(assets', del.id)
       /\ ObjectExists(del.key)']_vars


\* ------------------------------------------------ the names of inputs
\* the longest input name
MaxNameLen == 3

\* the characters of input names: the ones SanitizeFilename treats, a letter
NameChars == {".", "/", "\\", " ", "a"}

RECURSIVE NamesOfLen(_)
NamesOfLen(n) ==
  IF n = 0 THEN {""} ELSE {c \o t : c \in NameChars, t \in NamesOfLen(n - 1)}

\* the keys an inputs object can have
InputNames == UNION {NamesOfLen(n) : n \in 0..MaxNameLen}

\* mime types of input assets: one with an extension, one without
InputMimes == {"image/png", "application/octet-stream"}

\* InputHandler.Materialize: the directory of a job's inputs
BaseDir(jobID) == "jobs/" \o jobID \o "/inputs"

\* InputHandler.saveToLocal: filepath.Join(baseDir, filename) and os.Create.
\* The file name has no separator, so Join changes the path only for the
\* name ".", which Clean removes: the path is then the directory itself and
\* os.Create fails.
saveToLocal(baseDir, inputName, mime) ==
  LET filename == SanitizeFilename(inputName) \o ExtFromMime(mime)
  IN IF filename = "."
     THEN [path |-> baseDir, err |-> "is a directory"]
     ELSE [path |-> baseDir \o "/" \o filename, err |-> ""]

\* an inputs object with one or two names, all assets of one mime type
InitNames ==
  /\ InitState
  /\ provider = "localfs"
  /\ cleanupLocal = FALSE
  /\ queueName = DefaultQueueName
  /\ \E a, b \in InputNames, m \in InputMimes :
       san = [NoNames EXCEPT !.pc = "inputs", !.inputs = {a, b}, !.mime = m]

\* InputHandler.Materialize over the inputs object: every input is saved, in
\* the order the map iteration gives; a file two inputs are saved to holds
\* the content of the later one.  An input that cannot be saved ends the call
\* with the inputs visited before it saved.
MaterializeNames ==
  /\ san.pc = "inputs"
  /\ LET base == BaseDir(NewID("job", 1))
         saved(n) == saveToLocal(base, n, san.mime)
         good == {n \in san.inputs : saved(n).err = ""}
     IN \E S \in SUBSET good :
          /\ good = san.inputs => S = good
          /\ \E last \in [{saved(n).path : n \in S} -> S] :
               /\ \A p \in DOMAIN last : saved(last[p]).path = p
               /\ san' = [san EXCEPT
                            !.pc = "saved",
                            !.names = [n \in san.inputs |-> SanitizeFilename(n)],
                            !.files = last,
                            !.paths = IF good = san.inputs
                                      THEN [n \in good |-> saved(n).path]
                                      ELSE EmptyMap,
                            !.err = IF good = san.inputs THEN ""
                                    ELSE "failed to save input locally"]
  /\ UNCHANGED <<provider, cleanupLocal, queueName, lifecycle, returns, jobs, assets,
                 outputs, templates, queue, fs, dirs, drive, ids, api, hist, workerVars>>

NextNames == MaterializeNames

SpecNames == InitNames /\ [][NextNames]_vars

\* C40: for every input name the sanitized file name has no "/", no "\", no
\* space, no ".." and is not empty, and every file the input handler creates
\* lies directly inside jobs/<job_id>/inputs/.
C40_SanitizedInsideDir ==
  san.pc = "saved" =>
    /\ \A n \in san.inputs :
         LET s == san.names[n]
         IN /\ s # ""
            /\ ~Contains(s, "/")
            /\ ~Contains(s, "\\")
            /\ ~Contains(s, " ")
            /\ ~Contains(s, "..")
    /\ \A p \in DOMAIN san.files :
         LET prefix == BaseDir(NewID("job", 1)) \o "/"
             rest == SubSeq(p, Len(prefix) + 1, Len(p))
         IN /\ Len(p) > Len(prefix)
            /\ SubSeq(p, 1, Len(prefix)) = prefix
            /\ ~Contains(rest, "/")
            /\ rest \notin {".", ".."}

\* C40: the input named "../" was saved as _.png inside the job's inputs
\* directory
C40_TraversalNameSaved ==
  /\ san.pc = "saved"
  /\ "../" \in san.inputs
  /\ san.names["../"] = "_"
  /\ Has(san.files, "jobs/job_1/inputs/_.png")


\* C39: for two distinct input names Materialize returns two distinct local
\* files, and the file returned for an input holds that input's content: it is
\* never overwritten by another input whose name sanitizes to the same file
\* name with the same extension.
C39_DistinctFiles ==
  (san.pc = "saved" /\ san.err = "") =>
    /\ \A n1, n2 \in san.inputs :
         n1 # n2 => san.paths[n1] # san.paths[n2]
    /\ \A n \in san.inputs :
         /\ Has(san.files, san.paths[n])
         /\ san.files[san.paths[n]] = n
====
